---- MODULE Spec2Model ----
(***************************************************************************)
(* cloneEC2.py: create an AMI from a source EC2 instance (or reuse a       *)
(* supplied one), read the source instance's configuration, sanitise it,   *)
(* overlay the command-line overrides and launch a new instance.           *)
(*                                                                         *)
(* Python values are modelled with a type tag, [t |-> kind, v |-> value],  *)
(* so that a list of group records, a list of group ids and a plain        *)
(* string stay distinguishable.  A dict is a function on its keys.         *)
(***************************************************************************)
EXTENDS Integers, Sequences, FiniteSets, TLC

\* ---------------------------------------------------------------- bounds
MaxTags == 2
MaxGroups == 2
MaxOverrides == 2

\* ---------------------------------------------------------------- values
Str(s) == [t |-> "str", v |-> s]
Bool(b) == [t |-> "bool", v |-> b]
StrList(l) == [t |-> "strlist", v |-> l]
GroupList(l) == [t |-> "grouplist", v |-> l]
Profile(p) == [t |-> "profile", v |-> p]
TagList(l) == [t |-> "taglist", v |-> l]

\* the empty dict
EmptyDict == [k \in {} |-> Str("")]

\* d[k] = v on a dict
Put(d, k, val) == [x \in (DOMAIN d) \cup {k} |-> IF x = k THEN val ELSE d[x]]

\* {**a, **b}
DictMerge(a, b) == [x \in (DOMAIN a) \cup (DOMAIN b) |-> IF x \in DOMAIN b THEN b[x] ELSE a[x]]

\* sequences over S of length at most n
SeqUpTo(S, n) == UNION {[1..m -> S] : m \in 0..n}

\* faulty variant of str.startswith: the last character of the prefix is not compared
StartsWith_ShortPrefix(s, prefix) ==
    Len(s) >= Len(prefix) - 1 /\ SubSeq(s, 1, Len(prefix) - 1) = SubSeq(prefix, 1, Len(prefix) - 1)

\* str.startswith
StartsWith(s, prefix) == Len(s) >= Len(prefix) /\ SubSeq(s, 1, Len(prefix)) = prefix

\* ------------------------------------------------------- program inputs
\* sys.argv[2]
sourceinstance == "i-src"

\* keys of the key=value arguments the command line may carry, with the
\* string each one is given
OverrideValue ==
    [k \in {"ImageId", "SubnetId", "SecurityGroups", "IamInstanceProfile", "Owner"} |->
        CASE k = "ImageId" -> Str("ami-X")
          [] k = "SubnetId" -> Str("subnet-Y")
          [] k = "SecurityGroups" -> Str("sg-cli")
          [] k = "IamInstanceProfile" -> Str("arn:cli")
          [] k = "Owner" -> Str("ops")]

\* sysargv_config: dict(arg.split('=') for arg in sys.argv[3:]), or {}
OverrideMaps ==
    {[k \in K |-> OverrideValue[k]] : K \in {S \in SUBSET (DOMAIN OverrideValue) : Cardinality(S) <= MaxOverrides}}

\* -------------------------------------------------- provider responses
\* ids CreateImage may return
NewImageIds == {"ami-new"}

\* image states DescribeImages may report
ImageStates == {"pending", "available", "failed"}

GroupPool == {[GroupId |-> "sg-1", GroupName |-> "web"], [GroupId |-> "sg-2", GroupName |-> "db"]}

TagPool ==
    {[Key |-> "aws:cloudformation:stack-name", Value |-> "s"],
     [Key |-> "awsome", Value |-> "prod"],
     [Key |-> "CloneMethod", Value |-> "manual"]}

\* keys a descriptor always has besides the optional ones
RequiredKeys == {"ImageId", "InstanceType", "KeyName", "SubnetId", "VpcId", "SecurityGroups", "EbsOptimized"}

\* a full descriptor as DescribeInstances returns it
FullDescriptor(groups, tags) ==
    [k \in RequiredKeys \cup {"IamInstanceProfile", "Tags", "State", "PublicIpAddress"} |->
        CASE k = "ImageId" -> Str("ami-src")
          [] k = "InstanceType" -> Str("t3.small")
          [] k = "KeyName" -> Str("key-src")
          [] k = "SubnetId" -> Str("subnet-src")
          [] k = "VpcId" -> Str("vpc-src")
          [] k = "SecurityGroups" -> GroupList(groups)
          [] k = "EbsOptimized" -> Bool(FALSE)
          [] k = "IamInstanceProfile" -> Profile([Arn |-> "arn:src", Id |-> "AIPA"])
          [] k = "Tags" -> TagList(tags)
          [] k = "State" -> Str("running")
          [] k = "PublicIpAddress" -> Str("1.2.3.4")]

Restrict(d, K) == [k \in K |-> d[k]]

\* response['Reservations'][0]['Instances'][0]: a full descriptor, possibly
\* without an instance profile, without tags, or lacking one other key
Descriptors ==
    {Restrict(FullDescriptor(g, tg), (DOMAIN FullDescriptor(g, tg)) \ absent) :
        g \in SeqUpTo(GroupPool, MaxGroups),
        tg \in SeqUpTo(TagPool, MaxTags),
        absent \in {A \in SUBSET (RequiredKeys \cup {"IamInstanceProfile", "Tags"}) :
                        Cardinality(A \cap RequiredKeys) <= 1}}

\* ------------------------------------------------------------ sanitiser
\* the loop at lines 100-101: the GroupId of each group record, in order
GroupIds(groups) == [i \in 1..Len(groups) |-> groups[i].GroupId]

\* filter_keys
filter_keys == <<"ImageId", "InstanceType", "KeyName", "SubnetId", "VpcId", "SecurityGroups", "IamInstanceProfile", "EbsOptimized", "Tags">>

\* meta_tags
meta_tags == <<[Key |-> "CloneMethod", Value |-> "cloneEC2.py"], [Key |-> "CloneSource", Value |-> sourceinstance]>>

\* the loop at lines 138-140: append every tag whose key does not start
\* with 'aws:' to acc, in order
RECURSIVE AppendUnreserved(_, _)
AppendUnreserved(acc, source_tags) ==
    IF source_tags = <<>> THEN acc
    ELSE AppendUnreserved(IF ~StartsWith(Head(source_tags).Key, "aws:") THEN Append(acc, Head(source_tags)) ELSE acc,
                          Tail(source_tags))

\* faulty variant of the rewrites: the group records are kept as they are
Rewritten_RawGroups(source_config) ==
    LET c2 == Put(source_config, "IamInstanceProfile",
                  IF "IamInstanceProfile" \in DOMAIN source_config
                  THEN Str(source_config["IamInstanceProfile"].v.Arn) ELSE Str(""))
    IN  Put(c2, "Tags",
            IF "Tags" \in DOMAIN c2 THEN TagList(AppendUnreserved(meta_tags, c2["Tags"].v)) ELSE TagList(meta_tags))

\* lines 103-142: source_config after the in-place rewrites of
\* SecurityGroups, IamInstanceProfile and Tags
Rewritten(source_config) ==
    LET c1 == Put(source_config, "SecurityGroups", StrList(GroupIds(source_config["SecurityGroups"].v)))
        c2 == Put(c1, "IamInstanceProfile",
                  IF "IamInstanceProfile" \in DOMAIN c1 THEN Str(c1["IamInstanceProfile"].v.Arn) ELSE Str(""))
    IN  Put(c2, "Tags",
            IF "Tags" \in DOMAIN c2 THEN TagList(AppendUnreserved(meta_tags, c2["Tags"].v)) ELSE TagList(meta_tags))

\* lines 145-148: filtered_config[key] = source_config[key] for the filter keys
Filtered(config) == [k \in {filter_keys[i] : i \in 1..Len(filter_keys)} |-> config[k]]

\* the keys whose lookup raises KeyError: SecurityGroups at line 99, any
\* filter key at line 148
MissingKeys(config) == {filter_keys[i] : i \in 1..Len(filter_keys)} \ DOMAIN config

\* faulty variant of sanitise_instance_config: an absent key is given a
\* default (source_config.get) instead of raising KeyError
sanitise_with_defaults(source_config) ==
    LET full == [k \in (DOMAIN source_config) \cup RequiredKeys |->
                    IF k \in DOMAIN source_config THEN source_config[k]
                    ELSE IF k = "SecurityGroups" THEN GroupList(<<>>) ELSE Str("")]
    IN  [ok |-> TRUE, source |-> Rewritten(full), config |-> Filtered(Rewritten(full))]

\* sanitise_instance_config: ok is FALSE when a KeyError is raised; source is
\* the argument dict as the call leaves it; config is the returned dict
sanitise_instance_config(source_config) ==
    IF "SecurityGroups" \notin DOMAIN source_config
    THEN [ok |-> FALSE, source |-> source_config, config |-> EmptyDict]
    ELSE IF MissingKeys(Rewritten(source_config)) # {}
    THEN [ok |-> FALSE, source |-> Rewritten(source_config), config |-> EmptyDict]
    ELSE [ok |-> TRUE, source |-> Rewritten(source_config), config |-> Filtered(Rewritten(source_config))]

\* --------------------------------------------------------------- merger
\* faulty variant of modify_instance_config: {**append_config, **source_config}
modify_instance_config_LeftBiased(source_config, kwargs) == DictMerge(kwargs, source_config)

\* modify_instance_config(source_config, **kwargs)
modify_instance_config(source_config, kwargs) == DictMerge(source_config, kwargs)

\* {'ImageId': ami, **sysargv_config}
custom_config(image, overrides) == DictMerge([k \in {"ImageId"} |-> Str(image)], overrides)

\* the keyword arguments of client.run_instances
LaunchRequest(config) ==
    [ImageId |-> config["ImageId"],
     InstanceType |-> config["InstanceType"],
     KeyName |-> config["KeyName"],
     SubnetId |-> config["SubnetId"],
     SecurityGroupIds |-> config["SecurityGroups"],
     EbsOptimized |-> config["EbsOptimized"],
     IamInstanceProfile |-> [Arn |-> config["IamInstanceProfile"]],
     Tags |-> config["Tags"],
     MinCount |-> 1,
     MaxCount |-> 1]

\* ---------------------------------------------------------------- state
VARIABLES
    pc,                       \* stage of main
    sysargv_config,           \* the override map
    ami,                      \* the resolved image id ("" until resolved)
    imageState,               \* provider-side state of the created image
    sawAvailable,             \* a poll of the loop returned 'available'
    fetched,                  \* the descriptor as DescribeInstances returned it
    source_config,            \* the descriptor dict main holds
    sanitised_source_config,  \* result of sanitise_instance_config
    new_config,               \* result of modify_instance_config
    calls,                    \* provider calls issued so far, per operation
    launched,                 \* the requests handed to RunInstances
    created,                  \* the ids CreateImage returned
    err                       \* "" or the kind of error that ended the run

vars == <<pc, sysargv_config, ami, imageState, sawAvailable, fetched, source_config,
          sanitised_source_config, new_config, calls, launched, created, err>>

Ops == {"CreateImage", "DescribeImages", "DescribeInstances", "RunInstances"}

\* one more call of op; DescribeImages is only recorded as issued or not,
\* the poll loop being unbounded
Called(op) == [calls EXCEPT ![op] = IF op = "DescribeImages" THEN 1 ELSE @ + 1]

Init ==
    /\ pc = "START"
    /\ sysargv_config \in OverrideMaps
    /\ ami = ""
    /\ imageState = "none"
    /\ sawAvailable = FALSE
    /\ fetched = EmptyDict
    /\ source_config = EmptyDict
    /\ sanitised_source_config = EmptyDict
    /\ new_config = EmptyDict
    /\ calls = [op \in Ops |-> 0]
    /\ launched = <<>>
    /\ created = <<>>
    /\ err = ""

\* a provider call or a dict lookup raised: nothing catches it
Abort(kind) == pc' = "ABORTED" /\ err' = kind

\* line 195, ImageId not in sysargv_config
StartCreate ==
    /\ pc = "START"
    /\ "ImageId" \notin DOMAIN sysargv_config
    /\ pc' = "CREATING_IMAGE"
    /\ UNCHANGED <<sysargv_config, ami, imageState, sawAvailable, fetched, source_config,
                   sanitised_source_config, new_config, calls, launched, created, err>>

\* faulty variant of lines 209-211: the image is created although an
\* ImageId was supplied
StartOverride_CreatesAnyway ==
    /\ pc = "START"
    /\ "ImageId" \in DOMAIN sysargv_config
    /\ pc' = "CREATING_IMAGE"
    /\ UNCHANGED <<sysargv_config, ami, imageState, sawAvailable, fetched, source_config,
                   sanitised_source_config, new_config, calls, launched, created, err>>

\* lines 209-211
StartOverride ==
    /\ pc = "START"
    /\ "ImageId" \in DOMAIN sysargv_config
    /\ ami' = sysargv_config["ImageId"].v
    /\ pc' = "FETCHING_SOURCE"
    /\ UNCHANGED <<sysargv_config, imageState, sawAvailable, fetched, source_config,
                   sanitised_source_config, new_config, calls, launched, created, err>>

\* line 198, create_image returns
CreateImage ==
    /\ pc = "CREATING_IMAGE"
    /\ \E id \in NewImageIds : ami' = id /\ created' = Append(created, id)
    /\ imageState' = "pending"
    /\ calls' = Called("CreateImage")
    /\ pc' = "POLLING_IMAGE"
    /\ UNCHANGED <<sysargv_config, sawAvailable, fetched, source_config,
                   sanitised_source_config, new_config, launched, err>>

\* line 198, create_image raises
CreateImageError ==
    /\ pc = "CREATING_IMAGE"
    /\ calls' = Called("CreateImage")
    /\ Abort("provider")
    /\ UNCHANGED <<sysargv_config, ami, imageState, sawAvailable, fetched, source_config,
                   sanitised_source_config, new_config, launched, created>>

\* faulty variant of line 202: the loop is left after the first poll,
\* whatever state it reports
PollImage_AnyState ==
    /\ pc = "POLLING_IMAGE"
    /\ calls' = Called("DescribeImages")
    /\ pc' = "IMAGE_READY"
    /\ sawAvailable' = (sawAvailable \/ imageState = "available")
    /\ UNCHANGED <<sysargv_config, ami, imageState, fetched, source_config,
                   sanitised_source_config, new_config, launched, created, err>>

\* variant of line 202 that treats the state 'failed' as an error
PollImage_FailFast ==
    /\ pc = "POLLING_IMAGE"
    /\ calls' = Called("DescribeImages")
    /\ IF imageState = "available"
       THEN pc' = "IMAGE_READY" /\ sawAvailable' = TRUE /\ err' = err
       ELSE IF imageState = "failed"
       THEN Abort("image") /\ sawAvailable' = sawAvailable
       ELSE UNCHANGED <<pc, sawAvailable, err>>
    /\ UNCHANGED <<sysargv_config, ami, imageState, fetched, source_config,
                   sanitised_source_config, new_config, launched, created>>

\* line 202, image_status(ami) returns: leave the loop on 'available',
\* otherwise sleep and poll again
PollImage ==
    /\ pc = "POLLING_IMAGE"
    /\ calls' = Called("DescribeImages")
    /\ IF imageState = "available"
       THEN pc' = "IMAGE_READY" /\ sawAvailable' = TRUE
       ELSE UNCHANGED <<pc, sawAvailable>>
    /\ UNCHANGED <<sysargv_config, ami, imageState, fetched, source_config,
                   sanitised_source_config, new_config, launched, created, err>>

\* line 202, image_status raises
PollImageError ==
    /\ pc = "POLLING_IMAGE"
    /\ calls' = Called("DescribeImages")
    /\ Abort("provider")
    /\ UNCHANGED <<sysargv_config, ami, imageState, sawAvailable, fetched, source_config,
                   sanitised_source_config, new_config, launched, created>>

\* line 208, the status is read once more for the report
ReportImage ==
    /\ pc = "IMAGE_READY"
    /\ calls' = Called("DescribeImages")
    /\ pc' = "FETCHING_SOURCE"
    /\ UNCHANGED <<sysargv_config, ami, imageState, sawAvailable, fetched, source_config,
                   sanitised_source_config, new_config, launched, created, err>>

\* line 208, image_status raises
ReportImageError ==
    /\ pc = "IMAGE_READY"
    /\ calls' = Called("DescribeImages")
    /\ Abort("provider")
    /\ UNCHANGED <<sysargv_config, ami, imageState, sawAvailable, fetched, source_config,
                   sanitised_source_config, new_config, launched, created>>

\* the provider moves the created image to another state while main waits
ProviderImageStep ==
    /\ pc \in {"POLLING_IMAGE", "IMAGE_READY"}
    /\ \E s \in ImageStates : s # imageState /\ imageState' = s
    /\ UNCHANGED <<pc, sysargv_config, ami, sawAvailable, fetched, source_config,
                   sanitised_source_config, new_config, calls, launched, created, err>>

\* line 215, get_instance_config returns
GetInstanceConfig ==
    /\ pc = "FETCHING_SOURCE"
    /\ \E d \in Descriptors : fetched' = d /\ source_config' = d
    /\ calls' = Called("DescribeInstances")
    /\ pc' = "SANITIZING"
    /\ UNCHANGED <<sysargv_config, ami, imageState, sawAvailable,
                   sanitised_source_config, new_config, launched, created, err>>

\* line 215, get_instance_config raises
GetInstanceConfigError ==
    /\ pc = "FETCHING_SOURCE"
    /\ calls' = Called("DescribeInstances")
    /\ Abort("provider")
    /\ UNCHANGED <<sysargv_config, ami, imageState, sawAvailable, fetched, source_config,
                   sanitised_source_config, new_config, launched, created>>

\* line 218, sanitise_instance_config returns
Sanitise ==
    /\ pc = "SANITIZING"
    /\ sanitise_instance_config(source_config).ok
    /\ source_config' = sanitise_instance_config(source_config).source
    /\ sanitised_source_config' = sanitise_instance_config(source_config).config
    /\ pc' = "MERGING"
    /\ UNCHANGED <<sysargv_config, ami, imageState, sawAvailable, fetched,
                   new_config, calls, launched, created, err>>

\* line 218, sanitise_instance_config raises KeyError
SanitiseError ==
    /\ pc = "SANITIZING"
    /\ ~sanitise_instance_config(source_config).ok
    /\ source_config' = sanitise_instance_config(source_config).source
    /\ Abort("projection")
    /\ UNCHANGED <<sysargv_config, ami, imageState, sawAvailable, fetched,
                   sanitised_source_config, new_config, calls, launched, created>>

\* lines 222-223
Merge ==
    /\ pc = "MERGING"
    /\ new_config' = modify_instance_config(sanitised_source_config, custom_config(ami, sysargv_config))
    /\ pc' = "LAUNCHING"
    /\ UNCHANGED <<sysargv_config, ami, imageState, sawAvailable, fetched, source_config,
                   sanitised_source_config, calls, launched, created, err>>

\* line 227, run_instance returns
RunInstance ==
    /\ pc = "LAUNCHING"
    /\ launched' = Append(launched, LaunchRequest(new_config))
    /\ calls' = Called("RunInstances")
    /\ pc' = "DONE"
    /\ UNCHANGED <<sysargv_config, ami, imageState, sawAvailable, fetched, source_config,
                   sanitised_source_config, new_config, created, err>>

\* faulty variant of line 227: a failed launch is tried again
RunInstanceError_Retry ==
    /\ pc = "LAUNCHING"
    /\ launched' = Append(launched, LaunchRequest(new_config))
    /\ calls' = Called("RunInstances")
    /\ UNCHANGED <<pc, sysargv_config, ami, imageState, sawAvailable, fetched, source_config,
                   sanitised_source_config, new_config, created, err>>

\* line 227, run_instance raises
RunInstanceError ==
    /\ pc = "LAUNCHING"
    /\ launched' = Append(launched, LaunchRequest(new_config))
    /\ calls' = Called("RunInstances")
    /\ Abort("provider")
    /\ UNCHANGED <<sysargv_config, ami, imageState, sawAvailable, fetched, source_config,
                   sanitised_source_config, new_config, created>>

\* the steps of main
Main ==
    \/ StartCreate
    \/ StartOverride
    \/ CreateImage
    \/ CreateImageError
    \/ PollImage
    \/ PollImageError
    \/ ReportImage
    \/ ReportImageError
    \/ GetInstanceConfig
    \/ GetInstanceConfigError
    \/ Sanitise
    \/ SanitiseError
    \/ Merge
    \/ RunInstance
    \/ RunInstanceError

Next == Main \/ ProviderImageStep

Spec == Init /\ [][Next]_vars

\* main is a running process: it takes its next step whenever it has one
FairSpec == Spec /\ WF_vars(Main)

\* ------------------------------------------------------------ properties
\* two tagged values are the same Python value
Same(a, b) == a.t = b.t /\ a.v = b.v

\* sanitise_instance_config has been called on the fetched descriptor
SanitiseActed == DOMAIN fetched # {} /\ pc # "SANITIZING"

\* sanitise_instance_config has returned a LaunchSpec
Sanitised == DOMAIN sanitised_source_config # {}

\* the tags of the fetched descriptor, none when the key is absent
FetchedTags == IF "Tags" \in DOMAIN fetched THEN fetched["Tags"].v ELSE <<>>

\* positions of the tags of a list that carry the given key
TagPositions(tags, key) == {i \in 1..Len(tags) : tags[i].Key = key}

ProvenanceOnce(tags) ==
    /\ Len(tags) >= 2
    /\ tags[1] = [Key |-> "CloneMethod", Value |-> "cloneEC2.py"]
    /\ tags[2] = [Key |-> "CloneSource", Value |-> sourceinstance]
    /\ TagPositions(tags, "CloneMethod") = {1}
    /\ TagPositions(tags, "CloneSource") = {2}

\* C1: the tag list the sanitiser produces, and the one passed to the launch
\* call, holds exactly one CloneMethod tag at position 1 and exactly one
\* CloneSource tag at position 2, whatever tags the source carries.
C1_ProvenanceTagsNeverDuplicated ==
    /\ Sanitised => ProvenanceOnce(sanitised_source_config["Tags"].v)
    /\ \A i \in 1..Len(launched) : ProvenanceOnce(launched[i].Tags.v)

\* C2: with an ImageId override no CreateImage and no DescribeImages call is
\* ever issued, and the launch request carries the override's image id.
C2_OverrideBypassesProvisioning ==
    "ImageId" \in DOMAIN sysargv_config =>
        /\ calls["CreateImage"] = 0
        /\ calls["DescribeImages"] = 0
        /\ created = <<>>
        /\ \A i \in 1..Len(launched) : Same(launched[i].ImageId, sysargv_config["ImageId"])

C2_Witness ==
    /\ "ImageId" \in DOMAIN sysargv_config
    /\ pc = "DONE"
    /\ Len(launched) = 1
    /\ launched[1].ImageId.v = "ami-X"

\* the image id the provisioning stage resolved
ResolvedImage == IF created # <<>> THEN created[Len(created)] ELSE sysargv_config["ImageId"].v

\* C3: the effective configuration is the right-biased overlay: the override
\* where one is given, else the resolved image id for ImageId, else the
\* sanitised value.
C3_MergeRightBiased ==
    pc \in {"LAUNCHING", "DONE"} =>
        /\ DOMAIN new_config = (DOMAIN sanitised_source_config) \cup (DOMAIN sysargv_config) \cup {"ImageId"}
        /\ \A k \in DOMAIN new_config :
              IF k \in DOMAIN sysargv_config THEN Same(new_config[k], sysargv_config[k])
              ELSE IF k = "ImageId" THEN Same(new_config[k], Str(ResolvedImage))
              ELSE Same(new_config[k], sanitised_source_config[k])
        /\ \A i \in 1..Len(launched) : Same(launched[i].SubnetId, new_config["SubnetId"])

C3_Witness ==
    /\ pc = "DONE"
    /\ DOMAIN sysargv_config = {"SubnetId", "Owner"}
    /\ new_config["SubnetId"].v = "subnet-Y"
    /\ sanitised_source_config["SubnetId"].v = "subnet-src"
    /\ new_config["ImageId"].v \in NewImageIds
    /\ sanitised_source_config["ImageId"].v = "ami-src"
    /\ new_config["KeyName"].v = "key-src"

\* the run ended in the structural projection error, before merge and launch
ProjectionFailure ==
    /\ pc = "ABORTED"
    /\ err = "projection"
    /\ DOMAIN sanitised_source_config = {}
    /\ DOMAIN new_config = {}
    /\ calls["RunInstances"] = 0
    /\ launched = <<>>

FilterKeySet == {"ImageId", "InstanceType", "KeyName", "SubnetId", "VpcId", "SecurityGroups",
                 "IamInstanceProfile", "EbsOptimized", "Tags"}

\* C4 as stated: a descriptor lacking any projected key other than
\* IamInstanceProfile makes sanitisation fail, with no merge and no launch.
C4_AnyAbsentKeyIsFatal ==
    (SanitiseActed /\ (FilterKeySet \ {"IamInstanceProfile"}) \ DOMAIN fetched # {}) => ProjectionFailure

\* C4 amended: a descriptor lacking any projected key other than
\* IamInstanceProfile and Tags makes sanitisation fail, with no merge and no
\* launch.
C4_AbsentKeyIsFatal ==
    (SanitiseActed /\ (FilterKeySet \ {"IamInstanceProfile", "Tags"}) \ DOMAIN fetched # {}) => ProjectionFailure

C4_Witness ==
    /\ pc = "ABORTED"
    /\ err = "projection"
    /\ "SubnetId" \notin DOMAIN fetched
    /\ "Tags" \in DOMAIN fetched
    /\ calls["DescribeInstances"] = 1

\* a tag key with the provider-reserved prefix
Reserved(key) == Len(key) >= 4 /\ SubSeq(key, 1, 4) = "aws:"

KeepsTag(tag) == ~Reserved(tag.Key)

\* C5: the sanitised tag list is the two provenance tags followed by the
\* source tags without the reserved prefix, in source order; its length is 2
\* when the source has no tags.
C5_TagsFiltered ==
    Sanitised =>
        LET out == sanitised_source_config["Tags"].v IN
        /\ out = <<[Key |-> "CloneMethod", Value |-> "cloneEC2.py"],
                   [Key |-> "CloneSource", Value |-> sourceinstance]>> \o SelectSeq(FetchedTags, KeepsTag)
        /\ \A i \in 1..Len(out) : ~Reserved(out[i].Key)
        /\ FetchedTags = <<>> => Len(out) = 2

C5_Witness ==
    /\ Sanitised
    /\ Len(FetchedTags) = 2
    /\ Reserved(FetchedTags[1].Key)
    /\ FetchedTags[2].Key = "awsome"
    /\ Len(sanitised_source_config["Tags"].v) = 3
    /\ sanitised_source_config["Tags"].v[3].Key = "awsome"

\* SecurityGroups is the list of the source's group ids and
\* IamInstanceProfile the source's Arn or the empty string
PlainGroupsAndProfile(config) ==
    /\ "SecurityGroups" \in DOMAIN config
    /\ config["SecurityGroups"].t = "strlist"
    /\ Len(config["SecurityGroups"].v) = Len(fetched["SecurityGroups"].v)
    /\ \A i \in 1..Len(config["SecurityGroups"].v) :
          config["SecurityGroups"].v[i] = fetched["SecurityGroups"].v[i].GroupId
    /\ "IamInstanceProfile" \in DOMAIN config
    /\ config["IamInstanceProfile"].t = "str"
    /\ config["IamInstanceProfile"].v =
          IF "IamInstanceProfile" \in DOMAIN fetched THEN fetched["IamInstanceProfile"].v.Arn ELSE ""

\* C6 as stated: the sanitised LaunchSpec and every effective configuration
\* handed to run_instance carry the plain group ids and the plain profile
\* string of the source.
C6_PlainInEveryConfig ==
    /\ Sanitised => PlainGroupsAndProfile(sanitised_source_config)
    /\ pc \in {"LAUNCHING", "DONE"} => PlainGroupsAndProfile(new_config)
    /\ \A i \in 1..Len(launched) :
          PlainGroupsAndProfile([SecurityGroups |-> launched[i].SecurityGroupIds,
                                 IamInstanceProfile |-> launched[i].IamInstanceProfile.Arn])

\* C6 amended: the sanitised LaunchSpec always carries them; the effective
\* configuration carries them in each of the two fields the override map
\* does not name, and the override's string in a field it names.
C6_PlainUnlessOverridden ==
    /\ Sanitised => PlainGroupsAndProfile(sanitised_source_config)
    /\ pc \in {"LAUNCHING", "DONE"} =>
          /\ PlainGroupsAndProfile([k \in {"SecurityGroups", "IamInstanceProfile"} |->
                                       IF k \in DOMAIN sysargv_config THEN sanitised_source_config[k] ELSE new_config[k]])
          /\ \A k \in {"SecurityGroups", "IamInstanceProfile"} \cap DOMAIN sysargv_config :
                Same(new_config[k], sysargv_config[k])
    /\ \A i \in 1..Len(launched) :
          /\ Same(launched[i].SecurityGroupIds, new_config["SecurityGroups"])
          /\ Same(launched[i].IamInstanceProfile.Arn, new_config["IamInstanceProfile"])

C6_Witness ==
    /\ pc = "DONE"
    /\ Len(fetched["SecurityGroups"].v) = 2
    /\ "IamInstanceProfile" \notin DOMAIN fetched
    /\ DOMAIN sysargv_config = {"SubnetId"}
    /\ launched[1].SecurityGroupIds.v = <<"sg-2", "sg-1">>
    /\ launched[1].IamInstanceProfile.Arn.v = ""

\* C7: without an ImageId override, DescribeInstances and RunInstances are
\* issued only after a poll saw the image of the single CreateImage call
\* 'available', and the launch request carries the id that call returned.
C7_LaunchAfterImageAvailable ==
    "ImageId" \notin DOMAIN sysargv_config =>
        /\ calls["CreateImage"] <= 1
        /\ Len(created) <= 1
        /\ (calls["DescribeInstances"] > 0 \/ calls["RunInstances"] > 0 \/ launched # <<>>) =>
              /\ sawAvailable
              /\ calls["DescribeImages"] > 0
              /\ Len(created) = 1
        /\ \A i \in 1..Len(launched) : Same(launched[i].ImageId, Str(created[1]))

C7_Witness ==
    /\ "ImageId" \notin DOMAIN sysargv_config
    /\ pc = "DONE"
    /\ sawAvailable
    /\ created = <<"ami-new">>
    /\ Len(launched) = 1
    /\ launched[1].ImageId.v = "ami-new"

\* the transitions of the driver's state machine
ForwardStep(from, to) ==
    \/ from = "START" /\ to \in {"CREATING_IMAGE", "FETCHING_SOURCE"}
    \/ from = "CREATING_IMAGE" /\ to = "POLLING_IMAGE"
    \/ from = "POLLING_IMAGE" /\ to \in {"POLLING_IMAGE", "IMAGE_READY"}
    \/ from = "IMAGE_READY" /\ to = "FETCHING_SOURCE"
    \/ from = "FETCHING_SOURCE" /\ to = "SANITIZING"
    \/ from = "SANITIZING" /\ to = "MERGING"
    \/ from = "MERGING" /\ to = "LAUNCHING"
    \/ from = "LAUNCHING" /\ to = "DONE"

\* the stage moves along the state machine or the run aborts with an error
StageMovesForward ==
    \/ ForwardStep(pc, pc') /\ err' = ""
    \/ pc' = "ABORTED" /\ err = "" /\ err' # ""

\* a failed run issues no further call and enters no further stage
NothingAfterFailure == err # "" => UNCHANGED <<pc, calls, launched, created, err>>

AtMostOneCallEach ==
    /\ calls["CreateImage"] <= 1
    /\ calls["DescribeInstances"] <= 1
    /\ calls["RunInstances"] <= 1
    /\ Len(launched) <= 1
    /\ err # "" <=> pc = "ABORTED"

\* C8: the stage only moves forward (the poll loop apart), each of
\* CreateImage, DescribeInstances and RunInstances is issued at most once,
\* and after a failure no stage is entered and no call is issued.
C8_ForwardOnlyAbortOnFailure ==
    /\ []AtMostOneCallEach
    /\ [][StageMovesForward /\ NothingAfterFailure]_<<pc, calls, launched, created, err>>

C8_Witness ==
    /\ pc = "ABORTED"
    /\ err = "provider"
    /\ calls["RunInstances"] = 1
    /\ calls["CreateImage"] = 1
    /\ calls["DescribeInstances"] = 1
    /\ Len(launched) = 1

\* the poll loop is left for IMAGE_READY only on 'available'; any other
\* state keeps the run in the loop without an error
LoopLeftOnlyOnAvailable ==
    /\ (pc = "POLLING_IMAGE" /\ pc' = "IMAGE_READY") => imageState = "available"
    /\ (pc = "POLLING_IMAGE" /\ pc' = "ABORTED") => err' = "provider"
    /\ pc = "POLLING_IMAGE" => pc' \in {"POLLING_IMAGE", "IMAGE_READY", "ABORTED"}

NoLaunchBeforeAvailable ==
    ("ImageId" \notin DOMAIN sysargv_config /\ ~sawAvailable) =>
        /\ pc \in {"START", "CREATING_IMAGE", "POLLING_IMAGE", "ABORTED"}
        /\ pc = "ABORTED" => err = "provider"
        /\ launched = <<>>
        /\ calls["RunInstances"] = 0

C10_DescriptorImmutable ==
    DOMAIN fetched # {} =>
        /\ DOMAIN source_config = DOMAIN fetched
        /\ \A k \in DOMAIN fetched : Same(source_config[k], fetched[k])

====
